---------------------------- MODULE Spec2Model ----------------------------
(***************************************************************************)
(* The absolute pose error (APE) application of evo: main_ape.run() and    *)
(* main_ape.ape() as a state machine.                                      *)
(*                                                                         *)
(* Timestamps are integers (one unit is 0.1 s).  Positions are points of   *)
(* the integer plane, rotations are the identity.  An optional value       *)
(* (Python's None or a value) is the empty sequence or a one-element       *)
(* sequence.  Python's 0-based indices are 1-based here.                   *)
(***************************************************************************)
EXTENDS Integers, Sequences, FiniteSets, TLC

VARIABLES
    args,       \* the argparse.Namespace handed to run()
    in_ref,     \* content of the reference file
    in_est,     \* content of the estimate file
    pc,         \* position of run() / ape()
    err,        \* the exception that left run(), "none" while there is none
    raised_in,  \* the stage that raised it
    stages,     \* the stages executed so far, in order
    heap,       \* the trajectory objects: Lref, Lest (loaded), Sref, Sest (synchronized)
    traj_ref,   \* run()'s local name traj_ref: the object it is bound to
    traj_est,   \* run()'s local name traj_est
    traj_ref_full, \* run()'s traj_ref_full (optional)
    matches,    \* the index pairs the synchronizer matched
    at_call,    \* the values of ape()'s arguments traj_ref, traj_est at the call
    applied,    \* the alignment operations ape() executed on the estimate
    alignment_transformation, \* ape()'s local (optional)
    error,      \* the metric's per-pose error array
    result,     \* the Result (optional)
    plotted,    \* what plot_result received (optional)
    saved       \* what save_res_file received (optional)

vars == <<args, in_ref, in_est, pc, err, raised_in, stages, heap, traj_ref,
          traj_est, traj_ref_full, matches, at_call, applied,
          alignment_transformation, error, result, plotted, saved>>

---------------------------------------------------------------------------
(* Bounds of the explored inputs *)

MaxLen == 3

TMax == 2

MaxDiff == 1

\* rows of a homogeneous Sim(3) matrix
Sim3Rows == 4

\* least number of correspondences of Umeyama's method
Sim3MinPoints == 3

---------------------------------------------------------------------------
(* Small helpers *)

None == <<>>

Some(v) == <<v>>

Abs(x) == IF x < 0 THEN -x ELSE x

Min(a, b) == IF a <= b THEN a ELSE b

Last(s) == s[Len(s)]

StrictlyIncreasing(s) == \A i \in 1..(Len(s) - 1) : s[i] < s[i + 1]

\* Python truthiness of an optional float: None and 0.0 are falsy
Truthy(o) == o # None /\ o[1] # 0

\* Python's seq[:n]
Prefix(s, n) ==
    IF n >= 0 THEN SubSeq(s, 1, Min(n, Len(s)))
    ELSE SubSeq(s, 1, IF Len(s) + n > 0 THEN Len(s) + n ELSE 0)

---------------------------------------------------------------------------
(* Pose Trajectory Model (spec 3, 4.1) *)

NoTraj == [timed |-> FALSE, stamps |-> <<>>, pos |-> <<>>, frame |-> <<>>]

NumPoses(traj) == Len(traj.pos)

\* restriction by an explicit index subset, given as an increasing sequence
ReduceToIds(traj, ids) ==
    [traj EXCEPT !.pos = [k \in 1..Len(ids) |-> traj.pos[ids[k]]],
                 !.stamps = IF traj.timed
                            THEN [k \in 1..Len(ids) |-> traj.stamps[ids[k]]]
                            ELSE <<>>]

RECURSIVE IdsWhere(_, _, _)
\* the indices 1..n satisfying keep, in increasing order
IdsWhere(keep, n, acc) ==
    IF n = 0 THEN acc
    ELSE IdsWhere(keep, n - 1, IF n \in keep THEN <<n>> \o acc ELSE acc)

InTimeRange(t, start, end) ==
    /\ (start = None \/ t >= start[1])
    /\ (end = None \/ t <= end[1])

\* restriction to the closed interval [start, end]; a missing bound is open
ReduceToTimeRange(traj, start, end) ==
    LET keep == {i \in 1..NumPoses(traj) : InTimeRange(traj.stamps[i], start, end)}
    IN  ReduceToIds(traj, IdsWhere(keep, NumPoses(traj), <<>>))

\* exact Euclidean distance of two points at an integer distance
Dist(p, q) ==
    LET d2 == (p[1] - q[1]) * (p[1] - q[1]) + (p[2] - q[2]) * (p[2] - q[2])
    IN  CHOOSE r \in 0..d2 : r * r = d2

RECURSIVE CumDist(_, _)
CumDist(pos, i) ==
    IF i <= 1 THEN 0 ELSE CumDist(pos, i - 1) + Dist(pos[i - 1], pos[i])

\* distances: cumulative path length, distances[0] = 0.  Each entry carries the
\* similarity transforms pending on the trajectory (they scale the length).
Distances(traj) ==
    [i \in 1..NumPoses(traj) |-> [d |-> CumDist(traj.pos, i), frame |-> traj.frame]]

---------------------------------------------------------------------------
(* Synchronizer (spec 4.2) *)

\* |ta - (tb + offset)|
Score(ta, tb, offset) == Abs(ta - (tb + offset))

\* the index of B whose timestamp is nearest to ta; ties go to the earliest index
Nearest(ta, B, offset) ==
    CHOOSE j \in 1..Len(B) :
        \A k \in 1..Len(B) :
            \/ Score(ta, B[j], offset) < Score(ta, B[k], offset)
            \/ Score(ta, B[j], offset) = Score(ta, B[k], offset) /\ j <= k

ConsumedNever(acc, j) == FALSE

\* tb was taken by an earlier match
Consumed(acc, j) == \E k \in 1..Len(acc) : acc[k][2] = j

RECURSIVE MatchFrom(_, _, _, _, _, _)
\* greedy one-to-one assignment scanning A in timestamp order from index i
MatchFrom(i, A, B, max_diff, offset, acc) ==
    IF i > Len(A) THEN acc
    ELSE IF Len(B) = 0 THEN acc
    ELSE LET j == Nearest(A[i], B, offset)
             accept == /\ Score(A[i], B[j], offset) <= max_diff
                       /\ ~Consumed(acc, j)
         IN  MatchFrom(i + 1, A, B, max_diff, offset,
                       IF accept THEN Append(acc, <<i, j>>) ELSE acc)

MatchingTimeIndices(A, B, max_diff, offset) ==
    MatchFrom(1, A, B, max_diff, offset, <<>>)

NoMatchAccepted(m) == FALSE

\* a matched length of zero is an AssociationError
NoMatch(m) == Len(m) = 0

\* two new trajectories of equal reduced length, or the failure
AssociateTrajectories(first, second, max_diff, offset) ==
    LET m == MatchingTimeIndices(first.stamps, second.stamps, max_diff, offset)
    IN  [ok |-> ~NoMatch(m),
         matches |-> m,
         first |-> ReduceToIds(first, [k \in 1..Len(m) |-> m[k][1]]),
         second |-> ReduceToIds(second, [k \in 1..Len(m) |-> m[k][2]])]

---------------------------------------------------------------------------
(* Alignment Engine (spec 4.3).  The least-squares solution of Umeyama's   *)
(* method is the term naming its inputs, except where it is known exactly. *)

IdentityT ==
    [kind |-> "identity", t |-> <<0, 0>>, est |-> <<>>, ref |-> <<>>,
     with_scale |-> FALSE, only_scale |-> FALSE]

Translation(d) ==
    IF d = <<0, 0>> THEN IdentityT
    ELSE [IdentityT EXCEPT !.kind = "translation", !.t = d]

Collinear(P) ==
    \A i, j, k \in 1..Len(P) :
        (P[j][1] - P[i][1]) * (P[k][2] - P[i][2])
            = (P[j][2] - P[i][2]) * (P[k][1] - P[i][1])

\* fewer than 3 usable correspondences, or a degenerate covariance
Degenerate(P_est, P_ref) ==
    \/ Len(P_est) # Len(P_ref)
    \/ Len(P_est) < Sim3MinPoints
    \/ Collinear(P_est)
    \/ Collinear(P_ref)

UmeyamaT(P_est, P_ref, with_scale, only_scale) ==
    IF P_est = P_ref THEN IdentityT
    ELSE [kind |-> "umeyama", t |-> <<0, 0>>, est |-> P_est, ref |-> P_ref,
          with_scale |-> with_scale, only_scale |-> only_scale]

\* each pose becomes R * R_old, s * R * t_old + t
ApplyTransform(traj, T) ==
    IF T.kind = "identity" THEN traj
    ELSE IF T.kind = "translation" /\ traj.frame = <<>>
    THEN [traj EXCEPT !.pos = [i \in 1..Len(traj.pos) |->
                                <<traj.pos[i][1] + T.t[1], traj.pos[i][2] + T.t[2]>>]]
    ELSE [traj EXCEPT !.frame = Append(@, T)]

\* n = -1 uses all poses, otherwise the first n
Correspondences(pos, n) == IF n = -1 THEN pos ELSE Prefix(pos, n)

\* trajectory.align(traj_ref, correct_scale, correct_only_scale, n)
Align(est, ref, correct_scale, only_scale, n) ==
    LET P_est == Correspondences(est.pos, n)
        P_ref == Correspondences(ref.pos, n)
        T == UmeyamaT(P_est, P_ref, correct_scale \/ only_scale, only_scale)
    IN  IF Degenerate(P_est, P_ref)
        THEN [ok |-> FALSE, traj |-> est, T |-> IdentityT]
        ELSE [ok |-> TRUE, traj |-> ApplyTransform(est, T), T |-> T]

\* trajectory.align_origin(traj_ref): first pose onto first pose
AlignOrigin(est, ref) ==
    LET T == IF NumPoses(est) = 0 \/ NumPoses(ref) = 0 THEN IdentityT
             ELSE IF est.frame = <<>>
             THEN Translation(<<ref.pos[1][1] - est.pos[1][1],
                                ref.pos[1][2] - est.pos[1][2]>>)
             ELSE [IdentityT EXCEPT !.kind = "origin",
                                    !.est = <<est.pos[1]>>, !.ref = <<ref.pos[1]>>]
    IN  [ok |-> TRUE, traj |-> ApplyTransform(est, T), T |-> T]

\* lie_algebra.sim3(r, t, s): the rows of the homogeneous matrix
Sim3Matrix(T) == [r \in 1..Sim3Rows |-> <<r, T>>]

---------------------------------------------------------------------------
(* Metric Engine (spec 4.4) *)

\* E_i = reference_i^-1 * estimate_i, for identity rotations
RelativePose(ref, est, i) ==
    [d |-> <<est.pos[i][1] - ref.pos[i][1], est.pos[i][2] - ref.pos[i][2]>>,
     frame |-> est.frame]

\* APE.process_data: equal lengths are required
ProcessData(ref, est) ==
    IF NumPoses(ref) # NumPoses(est)
    THEN [ok |-> FALSE, error |-> <<>>]
    ELSE [ok |-> TRUE,
          error |-> [i \in 1..NumPoses(ref) |-> RelativePose(ref, est, i)]]

---------------------------------------------------------------------------
(* main_ape.ape(), lines 180-239 *)

\* n_to_align is not handed on
AlignCallAll(a) ==
    [op |-> "align", correct_scale |-> a.correct_scale,
     only_scale |-> a.correct_scale /\ ~a.align, n |-> -1]

\* traj_est.align(traj_ref, correct_scale, only_scale, n=n_to_align) (lines 187-192)
AlignCall(a) ==
    [op |-> "align", correct_scale |-> a.correct_scale,
     only_scale |-> a.correct_scale /\ ~a.align, n |-> a.n_to_align]

OriginCall == [op |-> "align_origin", correct_scale |-> FALSE,
               only_scale |-> FALSE, n |-> -1]

\* "if" in place of "elif"
AlignmentPlanBoth(a) ==
    (IF a.align \/ a.correct_scale THEN <<AlignCall(a)>> ELSE <<>>)
    \o (IF a.align_origin THEN <<OriginCall>> ELSE <<>>)

\* the alignment calls ape() makes for the flags, in order (lines 187-195)
AlignmentPlan(a) ==
    IF a.align \/ a.correct_scale THEN <<AlignCall(a)>>
    ELSE IF a.align_origin THEN <<OriginCall>>
    ELSE <<>>

ExecCall(call, est, ref) ==
    IF call.op = "align"
    THEN Align(est, ref, call.correct_scale, call.only_scale, call.n)
    ELSE AlignOrigin(est, ref)

RECURSIVE ExecPlan(_, _, _, _)
\* the calls of the plan, each acting on the estimate the one before left
ExecPlan(plan, est, ref, T) ==
    IF plan = <<>> THEN [ok |-> TRUE, traj |-> est, T |-> T]
    ELSE LET r == ExecCall(Head(plan), est, ref)
         IN  IF ~r.ok THEN [ok |-> FALSE, traj |-> est, T |-> None]
             ELSE ExecPlan(Tail(plan), r.traj, ref, Some(Sim3Matrix(r.T)))

\* correct_scale tested before align
TitleAlignmentScaleFirst(a) ==
    IF a.correct_scale THEN "(scale corrected)"
    ELSE IF a.align THEN "(with SE(3) Umeyama alignment)"
    ELSE IF a.align_origin THEN "(with origin alignment)"
    ELSE "(not aligned)"

\* the alignment part of the title (lines 204-213)
TitleAlignment(a) ==
    LET only_scale == a.correct_scale /\ ~a.align
    IN  IF a.align /\ ~a.correct_scale THEN "(with SE(3) Umeyama alignment)"
        ELSE IF a.align /\ a.correct_scale THEN "(with Sim(3) Umeyama alignment)"
        ELSE IF only_scale THEN "(scale corrected)"
        ELSE IF a.align_origin THEN "(with origin alignment)"
        ELSE "(not aligned)"

\* the suffix " (aligned poses: n)" (lines 214-215), optional
TitleAlignedPoses(a) ==
    IF (a.align \/ a.correct_scale) /\ a.n_to_align # -1
    THEN Some(a.n_to_align) ELSE None

Title(a) ==
    [metric |-> a.pose_relation,
     alignment |-> TitleAlignment(a),
     aligned_poses |-> TitleAlignedPoses(a)]

\* the first timestamp is left out
SecondsFromStartShort(ts) == [i \in 1..(Len(ts) - 1) |-> ts[i + 1] - ts[1]]

\* lines 226-227
SecondsFromStart(ts) == [i \in 1..Len(ts) |-> ts[i] - ts[1]]

\* lines 230-231
DistancesFromStart(ref) ==
    LET D == Distances(ref)
    IN  [i \in 1..Len(D) |-> [d |-> D[i].d - D[1].d, frame |-> D[i].frame]]

\* the names of the arrays ape() stores (lines 217, 225-237)
ArrayNames(est, T) ==
    {"error_array"}
    \cup (IF est.timed
          THEN {"seconds_from_start", "timestamps", "distances_from_start", "distances"}
          ELSE {})
    \cup (IF T # None THEN {"alignment_transformation_sim3"} ELSE {})

NpArrays(ref, est, err_array, T) ==
    [k \in ArrayNames(est, T) |->
        CASE k = "error_array" -> err_array
          [] k = "seconds_from_start" -> SecondsFromStart(est.stamps)
          [] k = "timestamps" -> est.stamps
          [] k = "distances_from_start" -> DistancesFromStart(ref)
          [] k = "distances" -> Distances(est)
          [] k = "alignment_transformation_sim3" -> T[1]]

TrajNames == {"reference", "estimate"}

---------------------------------------------------------------------------
(* The inputs: the two files and the arguments *)

Corner(k) ==
    CASE k % 4 = 0 -> <<0, 0>>
      [] k % 4 = 1 -> <<3, 0>>
      [] k % 4 = 2 -> <<3, 4>>
      [] k % 4 = 3 -> <<0, 4>>

\* the same rectangle, its corners visited in another order
CornerMirror(k) ==
    CASE k % 4 = 0 -> <<0, 0>>
      [] k % 4 = 1 -> <<0, 4>>
      [] k % 4 = 2 -> <<3, 0>>
      [] k % 4 = 3 -> <<3, 4>>

File(timed, stamps, variant) ==
    [timed |-> timed,
     stamps |-> IF timed THEN stamps ELSE <<>>,
     pos |-> [i \in 1..Len(stamps) |->
                IF variant = "mirror" THEN CornerMirror(stamps[i])
                ELSE Corner(stamps[i])],
     frame |-> <<>>]

StampSeqs ==
    {s \in UNION {[1..n -> 0..TMax] : n \in 1..MaxLen} : StrictlyIncreasing(s)}

\* files whose timestamps are not strictly increasing
BadStampSeqs == {<<1, 0>>, <<0, 1, 1>>}

OptTimes == {None} \cup {Some(t) : t \in 0..TMax}

\* the parser's defaults; t_max_diff 0 stands for its 0.01 s, a tolerance below
\* one time unit; save_traj_in_zip is SETTINGS.save_traj_in_zip
DefaultArgs ==
    [align |-> FALSE, correct_scale |-> FALSE, align_origin |-> FALSE,
     n_to_align |-> -1, t_start |-> None, t_end |-> None,
     t_max_diff |-> 0, t_offset |-> 0,
     plot |-> FALSE, plot_full_ref |-> FALSE, save_results |-> FALSE,
     save_traj_in_zip |-> FALSE, pose_relation |-> "trans_part"]

Input(a, ref, est) == args = a /\ in_ref = ref /\ in_est = est

\* timestamped runs over every time range, tolerance and offset
SyncInputs ==
    \E a \in StampSeqs, b \in StampSeqs, ts \in OptTimes, te \in OptTimes,
       md \in 0..MaxDiff, off \in (-MaxDiff)..MaxDiff :
        Input([DefaultArgs EXCEPT !.t_start = ts, !.t_end = te,
                                  !.t_max_diff = md, !.t_offset = off],
              File(TRUE, a, "plain"), File(TRUE, b, "mirror"))

\* runs over every alignment flag and n_to_align
ApeInputs ==
    \E a \in StampSeqs, b \in StampSeqs, v \in {"plain", "mirror"},
       tm \in BOOLEAN, al \in BOOLEAN, cs \in BOOLEAN, ao \in BOOLEAN,
       n \in {-1} \cup 1..MaxLen :
        Input([DefaultArgs EXCEPT !.align = al, !.correct_scale = cs,
                                  !.align_origin = ao, !.n_to_align = n],
              File(tm, a, "plain"), File(tm, b, v))

\* runs over every output option
OutInputs ==
    \E a \in StampSeqs, tm \in BOOLEAN, pl \in BOOLEAN, pf \in BOOLEAN,
       sv \in BOOLEAN, sz \in BOOLEAN, ao \in BOOLEAN,
       pr \in {"trans_part", "angle_deg"} :
        Input([DefaultArgs EXCEPT !.plot = pl, !.plot_full_ref = pf,
                                  !.save_results = sv, !.save_traj_in_zip = sz,
                                  !.align_origin = ao, !.pose_relation = pr],
              File(tm, a, "plain"), File(tm, a, "mirror"))

\* runs on a malformed file
BadInputs ==
    \E a \in StampSeqs \cup BadStampSeqs, b \in BadStampSeqs :
        Input(DefaultArgs, File(TRUE, a, "plain"), File(TRUE, b, "plain"))

\* scenario B: stamps 0, 1, 2 s against 0.5, 1.5, 2.5 s, offset 0.5 s, tolerance 0.2 s
ScenarioB ==
    Input([DefaultArgs EXCEPT !.t_max_diff = 2, !.t_offset = 5],
          File(TRUE, <<0, 10, 20>>, "plain"), File(TRUE, <<5, 15, 25>>, "plain"))

Inputs == SyncInputs \/ ApeInputs \/ OutInputs \/ BadInputs \/ ScenarioB

WellFormed(file) == file.timed => StrictlyIncreasing(file.stamps)

---------------------------------------------------------------------------
(* main_ape.run(), lines 242-297 *)

Init ==
    /\ Inputs
    /\ pc = "start"
    /\ err = "none"
    /\ raised_in = "none"
    /\ stages = <<>>
    /\ heap = [Lref |-> NoTraj, Lest |-> NoTraj, Sref |-> NoTraj, Sest |-> NoTraj]
    /\ traj_ref = "Lref"
    /\ traj_est = "Lest"
    /\ traj_ref_full = None
    /\ matches = <<>>
    /\ at_call = [ref |-> NoTraj, est |-> NoTraj]
    /\ applied = <<>>
    /\ alignment_transformation = None
    /\ error = <<>>
    /\ result = None
    /\ plotted = None
    /\ saved = None

Raise(stage, exception) ==
    /\ err' = exception
    /\ raised_in' = stage
    /\ stages' = Append(stages, stage)
    /\ pc' = "raised"

\* line 251: common.load_trajectories(args)
LoadTrajectories ==
    /\ pc = "start"
    /\ WellFormed(in_ref) /\ WellFormed(in_est)
    /\ heap' = [heap EXCEPT !.Lref = in_ref, !.Lest = in_est]
    /\ traj_ref' = "Lref"
    /\ traj_est' = "Lest"
    /\ stages' = Append(stages, "load")
    /\ pc' = "prepare"
    /\ UNCHANGED <<args, in_ref, in_est, err, raised_in, traj_ref_full, matches,
                   at_call, applied, alignment_transformation, error, result,
                   plotted, saved>>

LoadFails ==
    /\ pc = "start"
    /\ ~(WellFormed(in_ref) /\ WellFormed(in_est))
    /\ Raise("load", "DataError")
    /\ UNCHANGED <<args, in_ref, in_est, heap, traj_ref, traj_est, traj_ref_full,
                   matches, at_call, applied, alignment_transformation, error,
                   result, plotted, saved>>

BothTimed == heap[traj_ref].timed /\ heap[traj_est].timed

\* line 261: if args.t_start or args.t_end
UseTimeRange(a) == Truthy(a.t_start) \/ Truthy(a.t_end)

\* lines 253-266: the copy of the full reference, and the time range
RestrictTimeRange ==
    /\ pc = "prepare"
    /\ traj_ref_full' = IF args.plot_full_ref THEN Some(heap[traj_ref]) ELSE None
    /\ IF BothTimed
       THEN /\ heap' = IF UseTimeRange(args)
                       THEN [heap EXCEPT ![traj_ref] =
                               ReduceToTimeRange(@, args.t_start, args.t_end)]
                       ELSE heap
            /\ pc' = "sync"
       ELSE /\ heap' = heap
            /\ pc' = "ape_align"
    /\ stages' = Append(stages, "time_range")
    /\ UNCHANGED <<args, in_ref, in_est, err, raised_in, traj_ref, traj_est,
                   matches, at_call, applied, alignment_transformation, error,
                   result, plotted, saved>>

\* the offset with the wrong sign
SyncCallNegOffset(ref, est, a) ==
    AssociateTrajectories(ref, est, a.t_max_diff, -a.t_offset)

\* lines 268-270: sync.associate_trajectories(traj_ref, traj_est, t_max_diff, t_offset)
SyncCall(ref, est, a) == AssociateTrajectories(ref, est, a.t_max_diff, a.t_offset)

Synchronize ==
    /\ pc = "sync"
    /\ LET r == SyncCall(heap[traj_ref], heap[traj_est], args)
       IN  /\ r.ok
           /\ heap' = [heap EXCEPT !.Sref = r.first, !.Sest = r.second]
           /\ matches' = r.matches
    /\ traj_ref' = "Sref"
    /\ traj_est' = "Sest"
    /\ stages' = Append(stages, "sync")
    /\ pc' = "ape_align"
    /\ UNCHANGED <<args, in_ref, in_est, err, raised_in, traj_ref_full, at_call,
                   applied, alignment_transformation, error, result, plotted, saved>>

SynchronizeFails ==
    /\ pc = "sync"
    /\ ~SyncCall(heap[traj_ref], heap[traj_est], args).ok
    /\ Raise("sync", "AssociationError")
    /\ UNCHANGED <<args, in_ref, in_est, heap, traj_ref, traj_est, traj_ref_full,
                   matches, at_call, applied, alignment_transformation, error,
                   result, plotted, saved>>

\* lines 186-195: the alignment, acting on the estimate object
ApeAlign ==
    /\ pc = "ape_align"
    /\ at_call' = [ref |-> heap[traj_ref], est |-> heap[traj_est]]
    /\ LET r == ExecPlan(AlignmentPlan(args), heap[traj_est], heap[traj_ref], None)
       IN  /\ r.ok
           /\ heap' = [heap EXCEPT ![traj_est] = r.traj]
           /\ alignment_transformation' = r.T
    /\ applied' = AlignmentPlan(args)
    /\ stages' = Append(stages, "align")
    /\ pc' = "ape_metric"
    /\ UNCHANGED <<args, in_ref, in_est, err, raised_in, traj_ref, traj_est,
                   traj_ref_full, matches, error, result, plotted, saved>>

ApeAlignFails ==
    /\ pc = "ape_align"
    /\ at_call' = [ref |-> heap[traj_ref], est |-> heap[traj_est]]
    /\ ~ExecPlan(AlignmentPlan(args), heap[traj_est], heap[traj_ref], None).ok
    /\ Raise("align", "AlignmentError")
    /\ UNCHANGED <<args, in_ref, in_est, heap, traj_ref, traj_est, traj_ref_full,
                   matches, applied, alignment_transformation, error, result,
                   plotted, saved>>

\* lines 197-201: metrics.APE(pose_relation).process_data((traj_ref, traj_est))
ApeMetric ==
    /\ pc = "ape_metric"
    /\ LET r == ProcessData(heap[traj_ref], heap[traj_est])
       IN  /\ r.ok
           /\ error' = r.error
    /\ stages' = Append(stages, "metric")
    /\ pc' = "ape_result"
    /\ UNCHANGED <<args, in_ref, in_est, err, raised_in, heap, traj_ref, traj_est,
                   traj_ref_full, matches, at_call, applied,
                   alignment_transformation, result, plotted, saved>>

\* the error is logged and ape() goes on
ApeMetricFailsSwallowed ==
    /\ pc = "ape_metric"
    /\ ~ProcessData(heap[traj_ref], heap[traj_est]).ok
    /\ err' = "MetricError"
    /\ raised_in' = "metric"
    /\ stages' = Append(stages, "metric")
    /\ pc' = "ape_result"
    /\ UNCHANGED <<args, in_ref, in_est, heap, traj_ref, traj_est, traj_ref_full,
                   matches, at_call, applied, alignment_transformation, error,
                   result, plotted, saved>>

ApeMetricFails ==
    /\ pc = "ape_metric"
    /\ ~ProcessData(heap[traj_ref], heap[traj_est]).ok
    /\ Raise("metric", "MetricError")
    /\ UNCHANGED <<args, in_ref, in_est, heap, traj_ref, traj_est, traj_ref_full,
                   matches, at_call, applied, alignment_transformation, error,
                   result, plotted, saved>>

\* lines 203-239: the title, the arrays and the trajectories of the Result
ApeResult ==
    /\ pc = "ape_result"
    /\ result' = Some([info |-> [title |-> Title(args)],
                       np_arrays |-> NpArrays(heap[traj_ref], heap[traj_est],
                                              error, alignment_transformation),
                       trajectories |-> [k \in TrajNames |->
                            IF k = "reference" THEN heap[traj_ref]
                            ELSE heap[traj_est]]])
    /\ stages' = Append(stages, "result")
    /\ pc' = "plot"
    /\ UNCHANGED <<args, in_ref, in_est, err, raised_in, heap, traj_ref, traj_est,
                   traj_ref_full, matches, at_call, applied,
                   alignment_transformation, error, plotted, saved>>

\* lines 286-289 (plot stands for args.plot or args.save_plot or args.serialize_plot)
PlotResult ==
    /\ pc = "plot"
    /\ plotted' = IF args.plot
                  THEN Some([result |-> result[1],
                             traj_ref |-> heap[traj_ref],
                             traj_est |-> result[1].trajectories["estimate"],
                             traj_ref_full |-> traj_ref_full])
                  ELSE None
    /\ stages' = Append(stages, "plot")
    /\ pc' = "save"
    /\ UNCHANGED <<args, in_ref, in_est, err, raised_in, heap, traj_ref, traj_est,
                   traj_ref_full, matches, at_call, applied,
                   alignment_transformation, error, result, saved>>

\* lines 291-297
SaveResults ==
    /\ pc = "save"
    /\ IF args.save_results
       THEN /\ result' = IF ~args.save_traj_in_zip
                         THEN Some([result[1] EXCEPT !.trajectories =
                                        [k \in {} |-> NoTraj]])
                         ELSE result
            /\ saved' = result'
       ELSE UNCHANGED <<result, saved>>
    /\ stages' = Append(stages, "save")
    /\ pc' = "done"
    /\ UNCHANGED <<args, in_ref, in_est, err, raised_in, heap, traj_ref, traj_est,
                   traj_ref_full, matches, at_call, applied,
                   alignment_transformation, error, plotted>>

Next ==
    \/ LoadTrajectories
    \/ LoadFails
    \/ RestrictTimeRange
    \/ Synchronize
    \/ SynchronizeFails
    \/ ApeAlign
    \/ ApeAlignFails
    \/ ApeMetric
    \/ ApeMetricFails
    \/ ApeResult
    \/ PlotResult
    \/ SaveResults

Spec == Init /\ [][Next]_vars

---------------------------------------------------------------------------
(* Positions of run() the properties speak about *)

AfterSyncStage == pc \notin {"start", "prepare", "sync"} /\ raised_in # "load"

\* associate_trajectories returned normally
SyncReturned == \E i \in 1..Len(stages) : stages[i] = "sync" /\ raised_in # "sync"

\* ape()'s alignment step returned normally
AlignReturned == pc \in {"ape_metric", "ape_result", "plot", "save", "done"}

AlignStageDone == AlignReturned \/ raised_in \in {"align", "metric"}

Sim3Key == "alignment_transformation_sim3"

---------------------------------------------------------------------------
(* C1 *)

\* C1 as stated: every array of the Result's named-array mapping, the alignment
\* transformation included, is as long as the per-pose error array.
C1_AllArraysPerPose ==
    result # None =>
        \A k \in DOMAIN result[1].np_arrays :
            Len(result[1].np_arrays[k]) = Len(result[1].np_arrays["error_array"])

\* C1 amended: the error array has one entry per compared pose pair, every
\* per-pose array (seconds_from_start, timestamps, distances_from_start,
\* distances) is as long as the error array, and alignment_transformation_sim3,
\* when present, is the 4-row transformation matrix whatever the number of pairs.
C1_PerPoseArraysMatch ==
    result # None =>
        LET arrays == result[1].np_arrays
        IN  /\ Len(arrays["error_array"]) = NumPoses(heap[traj_est])
            /\ Len(arrays["error_array"]) = NumPoses(heap[traj_ref])
            /\ \A k \in DOMAIN arrays \ {Sim3Key} :
                   Len(arrays[k]) = Len(arrays["error_array"])
            /\ Sim3Key \in DOMAIN arrays => Len(arrays[Sim3Key]) = Sim3Rows

C1_Witness ==
    /\ result # None
    /\ DOMAIN result[1].np_arrays =
          {"error_array", "seconds_from_start", "timestamps",
           "distances_from_start", "distances", Sim3Key}
    /\ Len(result[1].np_arrays["error_array"]) = 2

---------------------------------------------------------------------------
(* C2 *)

\* C2 as stated: the caller's trajectories are never changed in place.  In run()
\* the loaded reference holds the file's poses after the time range and the
\* synchronization; after ape()'s alignment the two objects handed to ape()
\* hold the poses they held at the call.
C2_CallerTrajectoriesUnchanged ==
    /\ pc \in {"sync", "ape_align"} => heap.Lref = in_ref /\ heap.Lest = in_est
    /\ AlignReturned =>
          /\ heap[traj_ref] = at_call.ref
          /\ heap[traj_est] = at_call.est

---------------------------------------------------------------------------
(* C3 *)

\* C3: whatever the three flags, once ape() has aligned, at most one alignment
\* operation was applied to the estimate; the origin alignment only when align
\* and correct_scale are both false; scale-only exactly when correct_scale is
\* true and align is false.
C3_OneAlignmentMode ==
    AlignReturned =>
        /\ Len(applied) <= 1
        /\ (applied # <<>>) <=> (args.align \/ args.correct_scale \/ args.align_origin)
        /\ (\E i \in 1..Len(applied) : applied[i].op = "align_origin")
              => (~args.align /\ ~args.correct_scale)
        /\ (\E i \in 1..Len(applied) : applied[i].op = "align")
              <=> (args.align \/ args.correct_scale)
        /\ (\E i \in 1..Len(applied) : applied[i].only_scale)
              <=> (args.correct_scale /\ ~args.align)
        /\ Len(heap[traj_est].frame) <= 1

C3_Witness ==
    /\ AlignReturned
    /\ args.align /\ args.correct_scale /\ args.align_origin
    /\ Len(applied) = 1
    /\ heap[traj_est] # at_call.est

---------------------------------------------------------------------------
(* C4 *)

IsScenarioB ==
    /\ in_ref.timed /\ in_est.timed
    /\ in_ref.stamps = <<0, 10, 20>>
    /\ in_est.stamps = <<5, 15, 25>>
    /\ args.t_offset = 5
    /\ args.t_max_diff = 2
    /\ args.t_start = None /\ args.t_end = None

\* C4 as stated: scenario B matches all three pairs, 0-0, 1-1 and 2-2.
C4_ScenarioBAllThree ==
    (IsScenarioB /\ AfterSyncStage) =>
        /\ err = "none"
        /\ matches = <<<<1, 1>>, <<2, 2>>, <<3, 3>>>>

\* C4 amended: scenario B matches two pairs: reference index 1 with estimate
\* index 0 and reference index 2 with estimate index 1 (0-based); reference
\* index 0 is dropped, the nearest shifted estimate stamp being 1.0 s away.
C4_ScenarioBTwoPairs ==
    (IsScenarioB /\ AfterSyncStage) =>
        /\ err = "none"
        /\ matches = <<<<2, 1>>, <<3, 2>>>>
        /\ heap.Sref.stamps = <<10, 20>>
        /\ heap.Sest.stamps = <<5, 15>>

C4_Witness == IsScenarioB /\ pc = "ape_align" /\ Len(matches) = 2

---------------------------------------------------------------------------
(* C5 *)

\* C5: for strictly increasing stamps, any tolerance and any offset, the matched
\* indices are strictly increasing in both trajectories (so no index is matched
\* twice), the two outputs have equal length and strictly increasing stamps, and
\* index i of one is the partner of index i of the other.
C5_OneToOneOrdered ==
    SyncReturned =>
        /\ StrictlyIncreasing([k \in 1..Len(matches) |-> matches[k][1]])
        /\ StrictlyIncreasing([k \in 1..Len(matches) |-> matches[k][2]])
        /\ NumPoses(heap.Sref) = Len(matches)
        /\ NumPoses(heap.Sest) = Len(matches)
        /\ Len(heap.Sref.stamps) = Len(matches)
        /\ Len(heap.Sest.stamps) = Len(matches)
        /\ StrictlyIncreasing(heap.Sref.stamps)
        /\ StrictlyIncreasing(heap.Sest.stamps)
        /\ \A k \in 1..Len(matches) :
              /\ matches[k][1] \in 1..NumPoses(heap.Lref)
              /\ matches[k][2] \in 1..NumPoses(in_est)
              /\ heap.Sref.stamps[k] = heap.Lref.stamps[matches[k][1]]
              /\ heap.Sref.pos[k] = heap.Lref.pos[matches[k][1]]
              /\ heap.Sest.stamps[k] = in_est.stamps[matches[k][2]]
              /\ Score(heap.Sref.stamps[k], heap.Sest.stamps[k], args.t_offset)
                    <= args.t_max_diff

\* a reference pose was dropped because its nearest estimate stamp, though
\* within the tolerance, was already taken
C5_Witness ==
    /\ SyncReturned
    /\ Len(matches) >= 2
    /\ \E i \in 1..NumPoses(heap.Lref) :
          /\ \A k \in 1..Len(matches) : matches[k][1] # i
          /\ Score(heap.Lref.stamps[i],
                   in_est.stamps[Nearest(heap.Lref.stamps[i], in_est.stamps,
                                         args.t_offset)],
                   args.t_offset) <= args.t_max_diff

---------------------------------------------------------------------------
(* C6 *)

\* some pair of stamps lies within the tolerance
SomePairWithin ==
    \E i \in 1..NumPoses(heap.Lref), j \in 1..NumPoses(heap.Lest) :
        Score(heap.Lref.stamps[i], heap.Lest.stamps[j], args.t_offset)
            <= args.t_max_diff

\* C6: once the synchronizer has run on two timestamped trajectories, either it
\* raised AssociationError, and it did so exactly when no pair lies within the
\* tolerance, or it matched n pairs with 1 <= n <= min(len(A), len(B)).
C6_MatchedLengthBounds ==
    (AfterSyncStage /\ in_ref.timed /\ in_est.timed) =>
        /\ (raised_in = "sync") <=> ~SomePairWithin
        /\ raised_in = "sync" => err = "AssociationError" /\ matches = <<>>
                                   /\ heap.Sref = NoTraj /\ heap.Sest = NoTraj
        /\ raised_in # "sync" =>
              /\ Len(matches) >= 1
              /\ Len(matches) <= Min(NumPoses(heap.Lref), NumPoses(heap.Lest))
              /\ Len(matches) <= Min(NumPoses(in_ref), NumPoses(in_est))
              /\ NumPoses(heap.Sref) = Len(matches)
              /\ NumPoses(heap.Sest) = Len(matches)

C6_Witness ==
    /\ raised_in = "sync"
    /\ err = "AssociationError"
    /\ NumPoses(heap.Lref) >= 2
    /\ NumPoses(heap.Lest) >= 2

---------------------------------------------------------------------------
(* C7 *)

\* C7: once a stage has raised, run() is left at that stage: the raising stage
\* is the last one executed, and no Result exists, is plotted or is saved.
C7_FailFast ==
    err # "none" =>
        /\ pc = "raised"
        /\ stages # <<>> /\ Last(stages) = raised_in
        /\ result = None
        /\ plotted = None
        /\ saved = None

C7_Witness ==
    /\ err = "MetricError"
    /\ stages = <<"load", "time_range", "align", "metric">>
    /\ args.align_origin

---------------------------------------------------------------------------
(* C8 *)

\* the estimate handed to ape() starts on the reference's first pose and is off
\* it at every later pose
IsScenarioC ==
    /\ args.align \/ args.correct_scale
    /\ NumPoses(at_call.est) = NumPoses(at_call.ref)
    /\ NumPoses(at_call.est) >= Sim3MinPoints
    /\ ~Collinear(at_call.est.pos) /\ ~Collinear(at_call.ref.pos)
    /\ at_call.est.pos[1] = at_call.ref.pos[1]
    /\ \A i \in 2..NumPoses(at_call.est) : at_call.est.pos[i] # at_call.ref.pos[i]

\* C8 as stated: in scenario C with n_to_align = 1 the alignment completes with
\* the identity transform, which differs from the full-set one.
C8_ScenarioCIdentity ==
    (AlignStageDone /\ IsScenarioC /\ args.n_to_align = 1) =>
        /\ raised_in # "align"
        /\ alignment_transformation = Some(Sim3Matrix(IdentityT))
        /\ Align(at_call.est, at_call.ref, args.correct_scale,
                 args.correct_scale /\ ~args.align, -1).T # IdentityT

\* C8 amended: in scenario C with n_to_align = 1 the alignment fails with an
\* AlignmentError (one correspondence is fewer than Umeyama's method needs, and
\* there is no fall-back to origin matching): no transform is produced and the
\* estimate is left as it was; with n_to_align = -1 it completes with a transform.
C8_ScenarioCFails ==
    (AlignStageDone /\ IsScenarioC) =>
        /\ args.n_to_align = 1 =>
              /\ err = "AlignmentError"
              /\ raised_in = "align"
              /\ alignment_transformation = None
              /\ heap[traj_est] = at_call.est
              /\ result = None
        /\ args.n_to_align = -1 =>
              /\ raised_in # "align"
              /\ alignment_transformation # None

C8_Witness ==
    /\ AlignStageDone /\ IsScenarioC
    /\ args.n_to_align = 1
    /\ args.align /\ ~args.correct_scale
    /\ err = "AlignmentError"

---------------------------------------------------------------------------
(* C9 *)

\* C9 as stated: with both trajectories timestamped, when t_start or t_end is
\* given (0.0 included) no reference pose outside [t_start, t_end] is matched;
\* when neither is given the reference reaches the synchronizer unfiltered.
C9_TimeRangeApplied ==
    (SyncReturned /\ in_ref.timed /\ in_est.timed) =>
        IF args.t_start # None \/ args.t_end # None
        THEN \A k \in 1..Len(heap.Sref.stamps) :
                InTimeRange(heap.Sref.stamps[k], args.t_start, args.t_end)
        ELSE heap.Lref = in_ref

---------------------------------------------------------------------------
(* C10 *)

\* C10: the Result's title names the alignment that was applied, the
\* transformation array is stored exactly when the title is not "(not
\* aligned)", and the aligned-poses suffix is there exactly when an Umeyama or
\* scale alignment ran with n_to_align other than -1.
C10_TitleNamesAlignment ==
    result # None =>
        LET title == result[1].info.title
            ran(op) == \E i \in 1..Len(applied) : applied[i].op = op
        IN  /\ (title.alignment = "(with SE(3) Umeyama alignment)")
                  <=> (args.align /\ ~args.correct_scale)
            /\ (title.alignment = "(with Sim(3) Umeyama alignment)")
                  <=> (args.align /\ args.correct_scale)
            /\ (title.alignment = "(scale corrected)")
                  <=> (args.correct_scale /\ ~args.align)
            /\ (title.alignment = "(with origin alignment)")
                  <=> (args.align_origin /\ ~args.align /\ ~args.correct_scale)
            /\ (title.alignment = "(not aligned)") <=> (applied = <<>>)
            /\ (title.alignment = "(with origin alignment)") <=> ran("align_origin")
            /\ (title.alignment = "(scale corrected)")
                  <=> \E i \in 1..Len(applied) : applied[i].only_scale
            /\ (title.alignment = "(with Sim(3) Umeyama alignment)")
                  <=> \E i \in 1..Len(applied) :
                         applied[i].correct_scale /\ ~applied[i].only_scale
            /\ (Sim3Key \in DOMAIN result[1].np_arrays)
                  <=> (title.alignment # "(not aligned)")
            /\ (title.aligned_poses # None)
                  <=> (ran("align") /\ args.n_to_align # -1)
            /\ title.aligned_poses # None
                  => title.aligned_poses = Some(args.n_to_align)

C10_Witness ==
    /\ result # None
    /\ result[1].info.title.alignment = "(scale corrected)"
    /\ result[1].info.title.aligned_poses = Some(3)
    /\ args.align_origin

=============================================================================
